---- MODULE Spec2Model ----
(***************************************************************************)
(* A model of the Bravo session protocol (bravo/protocols/beta.py): the    *)
(* login state machine of BravoProtocol, authenticated entry, the chunk    *)
(* streamer (enable_chunk / send_chunk / disable_chunk / update_chunks,    *)
(* send_initial_chunk_and_location) and connectionLost, for several        *)
(* sessions that share one factory registry.                               *)
(*                                                                         *)
(* Twisted runs every handler and every callback to completion; a step of  *)
(* the model is one handler, one callback or one unit of a cooperative     *)
(* task.  The two long synchronous sequences (the part of authenticated()  *)
(* after load_player, and the callback chain of                            *)
(* send_initial_chunk_and_location) are split into their statements; the   *)
(* variable "run" holds the reactor while such a sequence executes, so     *)
(* that nothing interleaves with it.                                       *)
(***************************************************************************)
EXTENDS Integers, FiniteSets, Sequences, TLC

\* ---------------------------------------------------------------- constants
STATE_UNAUTHENTICATED == 0
STATE_CHALLENGED == 1
STATE_AUTHENTICATED == 2

SUPPORTED_PROTOCOL == 11

\* ------------------------------------------------------------------- bounds
NumSessions == 2          \* concurrent connections
SquareHalf == 2           \* half side of the initial square (3 in the source)
CircleRadius == 2         \* radius of the visible circle (10 in the source)
MaxOrphans == 1           \* replies outstanding for requests of stopped tasks, per chunk
MaxRuns == 2              \* concurrent runs of send_initial_chunk_and_location
MaxPackets == 2           \* packets the clients send per behaviour
MaxFails == 1             \* request_chunk failures per behaviour
MaxTime == 3              \* ticks of the clock
MaxTimers == 2            \* deferLater calls of digging outstanding
MaxDigPackets == 4        \* packets dispatched in a behaviour with digging (login included)
MaxBuildPackets == 3      \* packets dispatched in a behaviour with builds (login included)
MaxBuilds == 2            \* calls of build() that pass its checks
NumPreHooks == 2          \* configured pre-build hooks
NumPostHooks == 2         \* configured post-build hooks
MaxHeld == 2              \* items in the held slot
NumDigHooks == 2          \* configured dig hooks
MaxWid == 2               \* self.wid of a session when its packets start
MaxGives == 1             \* calls of factory.give by pickup()

Sessions == 1..NumSessions
Names == {"alice", "bob"}
None == "none"
Protocols == {SUPPORTED_PROTOCOL - 1, SUPPORTED_PROTOCOL, SUPPORTED_PROTOCOL + 1}

\* chunk coordinates a player can stand in
PlayerChunks == {<<0, 0>>, <<1, 0>>}

\* ------------------------------------------------------- geometry (pure code)
\* circle: product(xrange(-10, 10), xrange(-10, 10)) filtered by i**2 + j**2 <= 100
circle ==
  {p \in ((0 - CircleRadius)..(CircleRadius - 1)) \X ((0 - CircleRadius)..(CircleRadius - 1)) :
      p[1] * p[1] + p[2] * p[2] <= CircleRadius * CircleRadius}

\* new = set((i + x, j + z) for i, j in circle)
Visible(c) == {<<p[1] + c[1], p[2] + c[2]>> : p \in circle}

\* product(xrange(bigx - 3, bigx + 3), xrange(bigz - 3, bigz + 3)), in iteration order
SquareLen == (2 * SquareHalf) * (2 * SquareHalf)

SquareSeq(c) ==
  [k \in 1..SquareLen |->
     <<c[1] - SquareHalf + ((k - 1) \div (2 * SquareHalf)),
       c[2] - SquareHalf + ((k - 1) % (2 * SquareHalf))>>]

Square(c) == {SquareSeq(c)[k] : k \in 1..SquareLen}

\* entities_near(2): chunk_radius = int(2 // 16 + 1) = 1, xrange(chunk - 1, chunk + 2)
NearChunks(c) == ((c[1] - 1)..(c[1] + 1)) \X ((c[2] - 1)..(c[2] + 1))

\* key=lambda t: (t[0] - x)**2 + (t[1] - z)**2
Dist2(t, c) == (t[1] - c[1]) * (t[1] - c[1]) + (t[2] - c[2]) * (t[2] - c[2])

Coords == UNION {Square(p) \cup Visible(p) \cup NearChunks(p) : p \in PlayerChunks}

\* ---------------------------------------------------------------- variables
VARIABLES
  conn,        \* transport: "open", "closing" (loseConnection called), "lost";
               \* "absent" when no client ever connects
  state,       \* BetaServerProtocol.state
  username,    \* BetaServerProtocol.username
  player,      \* TRUE when self.player is loaded
  loc,         \* chunk of self.location
  hookPending, \* a login hook Deferred of the session has not fired yet
  authStage,   \* progress of authenticated()
  pingRunning, \* self._ping_loop.running
  timeLoop,    \* self.time_loop: "none", "running", "stopped"
  registry,    \* factory.protocols: name -> session
  chunks,      \* keys of self.chunks
  prechunk,    \* the chunks whose last prechunk packet was enabled=1
  resent,      \* a prechunk enabled=1 was written for a chunk whose last prechunk
               \* packet was enabled=1 already
  initTasks,   \* cooperative tasks of send_initial_chunk_and_location
  enTask,      \* chunk_tasks[0]: the enable task of the last update_chunks
  disTask,     \* chunk_tasks[1]: the disable task of the last update_chunks
  orphans,     \* request_chunk Deferreds of stopped tasks, still in flight
  run,         \* the synchronous sequence that holds the reactor
  selfEcho,    \* the session wrote its own avatar to its own transport
  motd,        \* configuration: a motd is configured
  sent,        \* packets dispatched so far
  fails,       \* request_chunk failures so far
  world,       \* the world gateway: "up", or "down" when every request_chunk fails
  clientName,  \* the username each client puts into its login packets
  lastPacket,  \* the packet (or login hook result) handled by the last step, if it
               \* was one, and the number of error packets its handler wrote
  now,         \* time(), in ticks
  lastDig,     \* self.last_dig
  digTimers,   \* the deferLater calls of digging that have not fired
  blockAt,     \* the block of the world at each position
  digDone,     \* the last run of run_dig_hooks, and the number of runs so far
  digHooks,    \* per run of run_dig_hooks: the hooks called, those whose Deferred
               \* has not fired, and the flush_chunk calls
  builds,      \* the calls of build() that passed its checks, with what each did
  held,        \* player.inventory.holdables[player.equipped]: item and count
  built,       \* the blocks and metadata that set_block / set_metadata have set
  wid,         \* self.wid
  windows,     \* keys of self.windows
  tiles,       \* chunk.tiles: the text of the sign of each chunk, and the calls of
               \* the sign hooks
  gives        \* the calls of factory.give made by pickup()

vars == <<conn, state, username, player, loc, hookPending, authStage, pingRunning,
          timeLoop, registry, chunks, prechunk, resent, initTasks, enTask, disTask,
          orphans,
          run, selfEcho, motd, sent, fails, world, clientName, lastPacket,
          now, lastDig, digTimers, blockAt, digDone, digHooks,
          builds, held, built, wid, windows, tiles, gives>>

sessVars == <<state, username, player, loc, hookPending, authStage, pingRunning, timeLoop>>
chunkVars == <<chunks, prechunk, resent, initTasks, enTask, disTask, orphans>>
digVars == <<now, lastDig, digTimers, blockAt, digDone, digHooks>>
buildVars == <<builds, held, built, wid, windows>>
playVars == <<digVars, buildVars, tiles, gives>>

Idle == [kind |-> "idle", s |-> 0, pc |-> None, center |-> <<0, 0>>, upd |-> 0,
         said |-> FALSE]
NoPacket == [op |-> None, s |-> 0, arg |-> 0, err |-> 0]
NoTask == [st |-> None, todo |-> {}, ctr |-> <<0, 0>>, wait |-> <<>>]

\* chunks that digging packets point into, and the block coordinates
\* (smallx, y, smallz) inside a chunk
DigChunks == {<<0, 0>>, <<1, 0>>, <<2, 0>>}
Smalls == {0, 1}
DigPos == DigChunks \X Smalls
Blocks == {"air", "stone", "dirt", "bedrock"}

\* build packets: the faces, the primary ids and the places they name
PlaceFaces == {"+y", "-y"}
Faces == PlaceFaces \cup {"noop"}
Primaries == {"stone", "torch", "shovel", "unknown", "-1"}
BuildChunks == {<<0, 0>>, <<2, 0>>}
Targets == {"stone", "workbench"}
Heights == {64, 127}

\* no sign anywhere, no sign hook called
NoTiles == [text |-> [c \in BuildChunks |-> None], hooks |-> 0]

NoItem == [item |-> None, count |-> 0]
NoBlock == [block |-> None, meta |-> 0]

\* "since" remembers the time of the "started" packet that set last_dig, "pos" its
\* chunk and coordinates, "matched" that a "stopped" packet has matched it
NoDig == [coords |-> 0 - 1, block |-> None, dtime |-> 0, since |-> 0,
          pos |-> <<<<0, 0>>, 0>>, matched |-> FALSE]
NoRun == [n |-> 0, s |-> 0, pos |-> <<<<0, 0>>, 0>>, block |-> None, at |-> 0, dtime |-> 0,
          since |-> 0, via |-> None]

\* the world before any dig; the clock; last_dig = None
InitDigVars ==
  /\ now = 0
  /\ lastDig = [s \in Sessions |-> NoDig]
  /\ digTimers = <<>>
  /\ blockAt = [p \in DigPos |->
                  IF p[2] = 1 THEN (IF p[1] = <<0, 0>> THEN "dirt" ELSE "bedrock")
                  ELSE "stone"]
  /\ digDone = NoRun
  /\ digHooks = <<>>

\* no build yet, nothing in the hand, wid = 1, no window
InitBuildVars ==
  /\ builds = <<>>
  /\ held = [s \in Sessions |-> NoItem]
  /\ built = [f \in PlaceFaces |-> NoBlock]
  /\ wid = [s \in Sessions |-> 1]
  /\ windows = [s \in Sessions |-> {}]
  /\ tiles = NoTiles
  /\ gives = 0

Init ==
  /\ world \in {"up", "down"}
  /\ clientName \in [Sessions -> Names]
  /\ \A s \in Sessions : (s = 1 \/ world = "up") => clientName[s] = "alice"
  /\ conn = [s \in Sessions |-> IF s = 1 \/ world = "down" THEN "open" ELSE "absent"]
  /\ state = [s \in Sessions |-> STATE_UNAUTHENTICATED]
  /\ username = [s \in Sessions |-> None]
  /\ player = [s \in Sessions |-> FALSE]
  /\ loc = [s \in Sessions |-> <<0, 0>>]
  /\ hookPending = [s \in Sessions |-> FALSE]
  /\ authStage = [s \in Sessions |-> None]
  /\ pingRunning = [s \in Sessions |-> FALSE]
  /\ timeLoop = [s \in Sessions |-> None]
  /\ registry = [n \in Names |-> 0]
  /\ chunks = [s \in Sessions |-> {}]
  /\ prechunk = [s \in Sessions |-> {}]
  /\ resent = [s \in Sessions |-> FALSE]
  /\ initTasks = [s \in Sessions |-> <<>>]
  /\ enTask = [s \in Sessions |-> NoTask]
  /\ disTask = [s \in Sessions |-> NoTask]
  /\ orphans = [s \in Sessions |-> [c \in Coords |-> 0]]
  /\ run = Idle
  /\ selfEcho = [s \in Sessions |-> FALSE]
  /\ motd \in BOOLEAN
  /\ sent = 0
  /\ fails = 0
  /\ lastPacket = NoPacket
  /\ InitDigVars
  /\ InitBuildVars

\* ------------------------------------------------------------ transport
\* transport.loseConnection(): the rest of the received buffer is still dispatched
LoseConnection(s) == [conn EXCEPT ![s] = IF @ = "open" THEN "closing" ELSE @]

\* an exception leaves dataReceived: the reactor drops the connection at once,
\* connectionLost is the next thing that runs
Abort(s) == [Idle EXCEPT !.kind = "drop", !.s = s]

\* dataReceived dispatches the next packet of the session, while fewer than max
\* packets were dispatched
Receiving(s, max) ==
  /\ conn[s] \in {"open", "closing"}
  /\ run = Idle
  /\ sent < max
  /\ sent' = sent + 1

Dispatching(s) == Receiving(s, MaxPackets)

\* BetaServerProtocol.error: transport.write(make_error_packet(message)), then
\* transport.loseConnection()
Error(s) == conn' = LoseConnection(s)

Packet(op, s, arg, err) == [op |-> op, s |-> s, arg |-> arg, err |-> err]

\* ------------------------------------------------------------ login
\* BetaServerProtocol.challenged
Challenged(s) == state' = [state EXCEPT ![s] = STATE_CHALLENGED]

\* factory.handshake_hook: returns a boolean, and calls challenged() when it accepts
HandshakeHook(s, ok) ==
  IF ok THEN Challenged(s) ELSE UNCHANGED state

\* BravoProtocol.handshake
Handshake(s) ==
  /\ Dispatching(s)
  /\ \E ok \in BOOLEAN :
       /\ HandshakeHook(s, ok)
       /\ conn' = IF ok THEN conn ELSE LoseConnection(s)
       /\ lastPacket' = Packet("handshake", s, IF ok THEN 1 ELSE 0, 0)
  /\ UNCHANGED <<username, player, loc, hookPending, authStage, pingRunning, timeLoop,
                 registry, chunkVars, run, selfEcho, motd, world, clientName, fails>>
  /\ UNCHANGED playVars

\* factory.login_hook: records the name and returns a Deferred
LoginHook(s, name) ==
  /\ username' = [username EXCEPT ![s] = name]
  /\ hookPending' = [hookPending EXCEPT ![s] = TRUE]

\* mutant: the version test without its check for newer clients
VersionSupportedNoUpper(proto) == ~(proto < SUPPORTED_PROTOCOL)

\* the version test of BravoProtocol.login
VersionSupported(proto) ==
  ~(proto < SUPPORTED_PROTOCOL) /\ ~(proto > SUPPORTED_PROTOCOL)

\* BravoProtocol.login
Login(s, proto) ==
  /\ Dispatching(s)
  /\ IF ~VersionSupported(proto)
       THEN /\ Error(s)
            /\ lastPacket' = Packet("login", s, proto, 1)
            /\ UNCHANGED <<username, hookPending>>
       ELSE /\ ~hookPending[s]
            /\ LoginHook(s, clientName[s])
            /\ lastPacket' = Packet("login", s, proto, 0)
            /\ UNCHANGED conn
  /\ UNCHANGED <<state, player, loc, authStage, pingRunning, timeLoop, registry,
                 chunkVars, run, selfEcho, motd, world, clientName, fails>>
  /\ UNCHANGED playVars

\* mutant: the ping loop may be started again, and authenticated() goes on
AuthenticatedAgain(s) ==
  /\ state' = [state EXCEPT ![s] = STATE_AUTHENTICATED]
  /\ pingRunning' = [pingRunning EXCEPT ![s] = TRUE]
  /\ authStage' = [authStage EXCEPT ![s] = "load"]

\* BetaServerProtocol.authenticated, and BravoProtocol.authenticated up to its
\* yield: LoopingCall.start asserts that the loop is not running yet
Authenticated(s) ==
  /\ state' = [state EXCEPT ![s] = STATE_AUTHENTICATED]
  /\ IF pingRunning[s]
       THEN UNCHANGED <<pingRunning, authStage>>
       ELSE /\ pingRunning' = [pingRunning EXCEPT ![s] = TRUE]
            /\ authStage' = [authStage EXCEPT ![s] = "load"]

\* the Deferred of the login hook fires: d.addErrback(loseConnection) comes
\* first, d.addCallback(authenticated) second, so the callback runs after the
\* errback has handled a failure as well
LoginHookDone(s, ok) ==
  /\ run = Idle
  /\ hookPending[s]
  /\ hookPending' = [hookPending EXCEPT ![s] = FALSE]
  /\ conn' = IF ok THEN conn ELSE LoseConnection(s)
  /\ Authenticated(s)
  /\ lastPacket' = Packet("login_hook", s, IF ok THEN 1 ELSE 0, 0)
  /\ UNCHANGED <<username, player, loc, timeLoop, registry, chunkVars, run,
                 selfEcho, motd, world, clientName, sent, fails>>
  /\ UNCHANGED playVars

\* ------------------------------------------------------------ authenticated()
InAuth(s, pc) == run.kind = "auth" /\ run.s = s /\ authStage[s] = pc

AuthNext(s, pc) == authStage' = [authStage EXCEPT ![s] = pc]

\* self.player = yield load_player(...); player.eid; self.location = player.location
LoadPlayerDone(s) ==
  /\ run = Idle
  /\ authStage[s] = "load"
  /\ player' = [player EXCEPT ![s] = TRUE]
  /\ \E p \in PlayerChunks : loc' = [loc EXCEPT ![s] = p]
  /\ run' = [Idle EXCEPT !.kind = "auth", !.s = s]
  /\ AuthNext(s, "announce")
  /\ lastPacket' = NoPacket
  /\ UNCHANGED <<conn, state, username, hookPending, pingRunning, timeLoop, registry,
                 chunkVars, selfEcho, motd, world, clientName, sent, fails>>
  /\ UNCHANGED playVars

\* factory.broadcast(chat "... is joining the game...")
AuthAnnounce(s) ==
  /\ InAuth(s, "announce")
  /\ AuthNext(s, "avatar")
  /\ UNCHANGED <<conn, state, username, player, loc, hookPending, pingRunning, timeLoop,
                 registry, chunkVars, run, selfEcho, motd, world, clientName, sent, fails, lastPacket>>
  /\ UNCHANGED playVars

\* mutant: the session is registered before the other avatars are written
AuthAvatarOutRegisters(s) ==
  /\ InAuth(s, "avatar")
  /\ registry' = [registry EXCEPT ![username[s]] = s]
  /\ AuthNext(s, "others")
  /\ UNCHANGED <<conn, state, username, player, loc, hookPending, pingRunning, timeLoop,
                 chunkVars, run, selfEcho, motd, world, clientName, sent, fails,
                 lastPacket>>
  /\ UNCHANGED playVars

\* factory.broadcast_for_others(avatar, self)
AuthAvatarOut(s) ==
  /\ InAuth(s, "avatar")
  /\ AuthNext(s, "others")
  /\ UNCHANGED <<conn, state, username, player, loc, hookPending, pingRunning, timeLoop,
                 registry, chunkVars, run, selfEcho, motd, world, clientName, sent, fails, lastPacket>>
  /\ UNCHANGED playVars

\* for protocol in self.factory.protocols.itervalues(): self.transport.write(avatar)
AuthAvatarsIn(s) ==
  /\ InAuth(s, "others")
  /\ selfEcho' = [selfEcho EXCEPT ![s] = @ \/ (\E n \in Names : registry[n] = s)]
  /\ AuthNext(s, "register")
  /\ UNCHANGED <<conn, state, username, player, loc, hookPending, pingRunning, timeLoop,
                 registry, chunkVars, run, motd, world, clientName, sent, fails, lastPacket>>
  /\ UNCHANGED playVars

\* self.factory.protocols[self.username] = self
AuthRegister(s) ==
  /\ InAuth(s, "register")
  /\ registry' = [registry EXCEPT ![username[s]] = s]
  /\ AuthNext(s, "spawn")
  /\ UNCHANGED <<conn, state, username, player, loc, hookPending, pingRunning, timeLoop,
                 chunkVars, run, selfEcho, motd, world, clientName, sent, fails, lastPacket>>
  /\ UNCHANGED playVars

\* mutant: the time loop is started before the initial chunks are requested
AuthSpawnStartsTime(s) ==
  /\ InAuth(s, "spawn")
  /\ timeLoop' = [timeLoop EXCEPT ![s] = "running"]
  /\ AuthNext(s, "initial")
  /\ UNCHANGED <<conn, state, username, player, loc, hookPending, pingRunning,
                 registry, chunkVars, run, selfEcho, motd, world, clientName, sent,
                 fails, lastPacket>>
  /\ UNCHANGED playVars

\* spawn and inventory packets
AuthSpawn(s) ==
  /\ InAuth(s, "spawn")
  /\ AuthNext(s, "initial")
  /\ UNCHANGED <<conn, state, username, player, loc, hookPending, pingRunning, timeLoop,
                 registry, chunkVars, run, selfEcho, motd, world, clientName, sent, fails, lastPacket>>
  /\ UNCHANGED playVars

\* send_initial_chunk_and_location: cooperate(enable_chunk(i, j) for ...).whenDone()
NewInitTask(c) == [center |-> c, idx |-> 1, wait |-> FALSE]

SendInitialChunkAndLocation(s, l) ==
  initTasks' = [initTasks EXCEPT ![s] = Append(@, NewInitTask(l))]

AuthInitial(s) ==
  /\ InAuth(s, "initial")
  /\ SendInitialChunkAndLocation(s, loc[s])
  /\ AuthNext(s, "time")
  /\ UNCHANGED <<conn, state, username, player, loc, hookPending, pingRunning, timeLoop,
                 registry, chunks, prechunk, resent, enTask, disTask, orphans, run,
                 selfEcho, motd, world, clientName, sent, fails, lastPacket>>
  /\ UNCHANGED playVars

\* self.time_loop = LoopingCall(self.update_time); self.time_loop.start(10)
AuthTimeLoop(s) ==
  /\ InAuth(s, "time")
  /\ timeLoop' = [timeLoop EXCEPT ![s] = "running"]
  /\ AuthNext(s, "done")
  /\ run' = Idle
  /\ UNCHANGED <<conn, state, username, player, loc, hookPending, pingRunning,
                 registry, chunkVars, selfEcho, motd, world, clientName, sent, fails, lastPacket>>
  /\ UNCHANGED playVars


\* ------------------------------------------------------------ chunk streamer
\* enable_chunk: if (x, z) in self.chunks: return succeed(None)
InCache(s, c) == c \in chunks[s]

\* mutant: send_chunk without its last line
SendChunkNoInsert(s, c) ==
  /\ resent' = [resent EXCEPT ![s] = @ \/ c \in prechunk[s]]
  /\ prechunk' = [prechunk EXCEPT ![s] = @ \cup {c}]
  /\ UNCHANGED chunks

\* send_chunk: prechunk enabled=1, the chunk, its entities and signs are written,
\* then self.chunks[chunk.x, chunk.z] = chunk
SendChunk(s, c) ==
  /\ resent' = [resent EXCEPT ![s] = @ \/ c \in prechunk[s]]
  /\ prechunk' = [prechunk EXCEPT ![s] = @ \cup {c}]
  /\ chunks' = [chunks EXCEPT ![s] = @ \cup {c}]

\* disable_chunk: chunk = self.chunks.pop(x, z) looks up the key x, which is never
\* a key of a dict keyed by pairs, and so returns the default z; z.entities then
\* raises AttributeError before any packet is written or any key removed
DisableChunkRaises(s, c) == TRUE

\* factory.world.request_chunk fires with a chunk, or fails with a WorldError
WorldReply(ok) ==
  /\ world = "down" => ~ok
  /\ IF ok \/ world = "down" THEN UNCHANGED fails ELSE fails < MaxFails /\ fails' = fails + 1

RemoveAt(seq, k) == [i \in 1..(Len(seq) - 1) |-> IF i < k THEN seq[i] ELSE seq[i + 1]]

\* mutant: the square misses its last chunk
InitExhaustedEarly(r) == r.idx > SquareLen - 1

\* the generator of the initial task is exhausted
InitExhausted(r) == r.idx > SquareLen

\* one unit of the cooperative task of send_initial_chunk_and_location: the next
\* enable_chunk(i, j); the task pauses on a Deferred that has not fired
InitStep(s, k) ==
  /\ run = Idle
  /\ k \in 1..Len(initTasks[s])
  /\ LET r == initTasks[s][k]
         c == SquareSeq(r.center)[r.idx]
     IN /\ ~r.wait
        /\ ~InitExhausted(r)
        /\ initTasks' = [initTasks EXCEPT ![s][k] =
                           IF InCache(s, c) THEN [r EXCEPT !.idx = @ + 1]
                           ELSE [r EXCEPT !.wait = TRUE]]
  /\ lastPacket' = NoPacket
  /\ UNCHANGED <<conn, sessVars, registry, chunks, prechunk, resent, enTask, disTask, orphans,
                 run, selfEcho, motd, world, clientName, sent, fails>>
  /\ UNCHANGED playVars

\* request_chunk fires for a paused initial task: send_chunk, then the task resumes;
\* a failure fails the task and whenDone() errbacks, which skips every callback
InitReply(s, k, ok) ==
  /\ run = Idle
  /\ k \in 1..Len(initTasks[s])
  /\ LET r == initTasks[s][k]
         c == SquareSeq(r.center)[r.idx]
     IN /\ r.wait
        /\ IF ok
             THEN /\ SendChunk(s, c)
                  /\ initTasks' = [initTasks EXCEPT ![s][k] =
                                     [r EXCEPT !.idx = @ + 1, !.wait = FALSE]]
             ELSE /\ initTasks' = [initTasks EXCEPT ![s] = RemoveAt(@, k)]
                  /\ UNCHANGED <<chunks, prechunk, resent>>
  /\ WorldReply(ok)
  /\ lastPacket' = NoPacket
  /\ UNCHANGED <<conn, sessVars, registry, enTask, disTask, orphans, run, selfEcho, motd, world, clientName,
                 sent>>
  /\ UNCHANGED playVars

\* task.stop() of a task that was stopped before raises TaskStopped, which
\* update_chunks does not catch (it catches TaskDone and TaskFailed)
UpdateRaises(s) == enTask[s].st = "stopped" \/ disTask[s].st = "stopped"

StopTask(t) == IF t.st = "run" THEN [t EXCEPT !.st = "stopped", !.wait = <<>>] ELSE t

\* the request of a stopped task stays in flight, and send_chunk stays its callback
OrphansAfterStop(s) ==
  IF enTask[s].st = "run" /\ enTask[s].wait # <<>>
    THEN [orphans EXCEPT ![s][enTask[s].wait[1]] = @ + 1]
    ELSE orphans

CanStop(s) ==
  (enTask[s].st = "run" /\ enTask[s].wait # <<>>)
     => orphans[s][enTask[s].wait[1]] < MaxOrphans

\* update_chunks with the player in chunk l
UpdateChunks(s, l) ==
  IF UpdateRaises(s)
    THEN UNCHANGED <<enTask, disTask, orphans>>
    ELSE /\ enTask' = [enTask EXCEPT ![s] =
                         [st |-> "run", todo |-> Visible(l) \ chunks[s], ctr |-> l,
                          wait |-> <<>>]]
         /\ disTask' = [disTask EXCEPT ![s] =
                          [st |-> "run", todo |-> chunks[s] \ Visible(l), ctr |-> l,
                           wait |-> <<>>]]
         /\ orphans' = OrphansAfterStop(s)

\* the initial task is done: whenDone() fires and its callbacks start
InitDone(s, k) ==
  /\ run = Idle
  /\ k \in 1..Len(initTasks[s])
  /\ LET r == initTasks[s][k]
     IN /\ ~r.wait
        /\ InitExhausted(r)
        /\ run' = [kind |-> "spawn", s |-> s, pc |-> "update_location",
                   center |-> r.center, upd |-> 0, said |-> FALSE]
  /\ CanStop(s)
  /\ initTasks' = [initTasks EXCEPT ![s] = RemoveAt(@, k)]
  /\ lastPacket' = NoPacket
  /\ UNCHANGED <<conn, sessVars, registry, chunks, prechunk, resent, enTask, disTask, orphans,
                 selfEcho, motd, world, clientName, sent, fails>>
  /\ UNCHANGED playVars

\* mutant: the added chunks are not sorted
NearestAny(t) == t.todo

\* sorted(added, key=...): the next chunk is one of the nearest that are left
Nearest(t) == {c \in t.todo : \A d \in t.todo : Dist2(c, t.ctr) <= Dist2(d, t.ctr)}

\* one unit of the enable task
EnableStep(s) ==
  /\ run = Idle
  /\ enTask[s].st = "run"
  /\ enTask[s].wait = <<>>
  /\ \E c \in Nearest(enTask[s]) :
       enTask' = [enTask EXCEPT ![s].todo = @ \ {c},
                                ![s].wait = IF InCache(s, c) THEN <<>> ELSE <<c>>]
  /\ lastPacket' = NoPacket
  /\ UNCHANGED <<conn, sessVars, registry, chunks, prechunk, resent, initTasks, disTask, orphans,
                 run, selfEcho, motd, world, clientName, sent, fails>>
  /\ UNCHANGED playVars

EnableDone(s) ==
  /\ run = Idle
  /\ enTask[s].st = "run"
  /\ enTask[s].wait = <<>>
  /\ enTask[s].todo = {}
  /\ enTask' = [enTask EXCEPT ![s].st = "done"]
  /\ lastPacket' = NoPacket
  /\ UNCHANGED <<conn, sessVars, registry, chunks, prechunk, resent, initTasks, disTask, orphans,
                 run, selfEcho, motd, world, clientName, sent, fails>>
  /\ UNCHANGED playVars

\* request_chunk fires for the paused enable task
EnableReply(s, ok) ==
  /\ run = Idle
  /\ enTask[s].st = "run"
  /\ enTask[s].wait # <<>>
  /\ IF ok
       THEN /\ SendChunk(s, enTask[s].wait[1])
            /\ enTask' = [enTask EXCEPT ![s].wait = <<>>]
       ELSE /\ enTask' = [enTask EXCEPT ![s].st = "failed", ![s].wait = <<>>]
            /\ UNCHANGED <<chunks, prechunk, resent>>
  /\ WorldReply(ok)
  /\ lastPacket' = NoPacket
  /\ UNCHANGED <<conn, sessVars, registry, initTasks, disTask, orphans, run, selfEcho, motd, world, clientName,
                 sent>>
  /\ UNCHANGED playVars

\* request_chunk fires for a task that was stopped meanwhile
OrphanReply(s, c, ok) ==
  /\ run = Idle
  /\ orphans[s][c] > 0
  /\ orphans' = [orphans EXCEPT ![s][c] = @ - 1]
  /\ IF ok THEN SendChunk(s, c) ELSE UNCHANGED <<chunks, prechunk, resent>>
  /\ WorldReply(ok)
  /\ lastPacket' = NoPacket
  /\ UNCHANGED <<conn, sessVars, registry, initTasks, enTask, disTask, run, selfEcho, motd, world, clientName,
                 sent>>
  /\ UNCHANGED playVars

\* one unit of the disable task: disable_chunk(i, j) for the first discarded chunk
DisableStep(s) ==
  /\ run = Idle
  /\ disTask[s].st = "run"
  /\ IF disTask[s].todo = {}
       THEN disTask' = [disTask EXCEPT ![s].st = "done"]
       ELSE \E c \in disTask[s].todo :
              /\ DisableChunkRaises(s, c)
              /\ disTask' = [disTask EXCEPT ![s].st = "failed"]
  /\ lastPacket' = NoPacket
  /\ UNCHANGED <<conn, sessVars, registry, chunks, prechunk, resent, initTasks, enTask, orphans,
                 run, selfEcho, motd, world, clientName, sent, fails>>
  /\ UNCHANGED playVars


\* ------------------------------------------------------------ movement
\* entities_near(2) reads self.chunks[x, z] for the 3x3 chunks around the player
EntitiesNearRaises(s, l) == ~(NearChunks(l) \subseteq chunks[s])

\* BetaServerProtocol.position with a changed block position, in chunk p (a
\* packet that leaves the block position as it was changes nothing);
\* position_changed: teleport broadcast, update_chunks, pickup of near items
Position(s, p) ==
  /\ Dispatching(s)
  /\ CanStop(s)
  /\ loc' = [loc EXCEPT ![s] = p]
  /\ lastPacket' = Packet("position", s, 0, 0)
  /\ IF ~player[s]
       THEN /\ run' = Abort(s)
            /\ UNCHANGED <<enTask, disTask, orphans>>
       ELSE /\ UpdateChunks(s, p)
            /\ run' = IF UpdateRaises(s) \/ EntitiesNearRaises(s, p)
                        THEN Abort(s) ELSE run
  /\ UNCHANGED <<conn, state, username, player, hookPending, authStage, pingRunning,
                 timeLoop, registry, chunks, prechunk, resent, initTasks, selfEcho, motd, world, clientName, fails>>
  /\ UNCHANGED playVars

\* BravoProtocol.chat with "/warp <name>" (Warp.chat_command; home, ascend and
\* descend end alike): the location of factory.protocols[username] is set and
\* its send_initial_chunk_and_location() is called
Warp(s, p) ==
  /\ Dispatching(s)
  /\ username[s] \in Names
  /\ registry[username[s]] # 0
  /\ LET t == registry[username[s]]
     IN /\ Len(initTasks[t]) < MaxRuns
        /\ loc' = [loc EXCEPT ![t] = p]
        /\ SendInitialChunkAndLocation(t, p)
  /\ lastPacket' = Packet("chat", s, 0, 0)
  /\ UNCHANGED <<conn, state, username, player, hookPending, authStage, pingRunning,
                 timeLoop, registry, chunks, prechunk, resent, enTask, disTask, orphans, run,
                 selfEcho, motd, world, clientName, fails>>
  /\ UNCHANGED playVars

\* ------------------------------------------- callbacks of the initial task
InChain(s, pc) == run.kind = "spawn" /\ run.s = s /\ run.pc = pc

\* mutant: the callbacks after update_location start with the motd
ChainLocationSkips(s) ==
  /\ InChain(s, "update_location")
  /\ run' = IF loc[s] \in chunks[s] THEN [run EXCEPT !.pc = "motd"] ELSE Idle
  /\ UNCHANGED <<conn, sessVars, registry, chunkVars, selfEcho, motd, world, clientName,
                 sent, fails, lastPacket>>
  /\ UNCHANGED playVars

\* update_location: chunk = self.chunks[bigx, bigz]; location packet
ChainLocation(s) ==
  /\ InChain(s, "update_location")
  /\ run' = IF loc[s] \in chunks[s] THEN [run EXCEPT !.pc = "position_changed"] ELSE Idle
  /\ UNCHANGED <<conn, sessVars, registry, chunkVars, selfEcho, motd, world, clientName, sent, fails, lastPacket>>
  /\ UNCHANGED playVars

\* position_changed
ChainPositionChanged(s) ==
  /\ InChain(s, "position_changed")
  /\ UpdateChunks(s, loc[s])
  /\ run' = IF UpdateRaises(s) \/ EntitiesNearRaises(s, loc[s])
              THEN Idle
              ELSE [run EXCEPT !.pc = "motd", !.upd = @ + 1]
  /\ UNCHANGED <<conn, sessVars, registry, chunks, prechunk, resent, initTasks, selfEcho, motd, world, clientName, sent, fails,
                 lastPacket>>
  /\ UNCHANGED playVars

\* if self.motd: chat packet with the motd
ChainMotd(s) ==
  /\ InChain(s, "motd")
  /\ run' = [run EXCEPT !.pc = "update_chunks", !.said = motd]
  /\ UNCHANGED <<conn, sessVars, registry, chunkVars, selfEcho, motd, world, clientName, sent, fails, lastPacket>>
  /\ UNCHANGED playVars

\* "Finally, start the secondary chunk loop": update_chunks
ChainUpdate(s) ==
  /\ InChain(s, "update_chunks")
  /\ UpdateChunks(s, loc[s])
  /\ run' = IF UpdateRaises(s) THEN Idle ELSE [run EXCEPT !.pc = "end", !.upd = @ + 1]
  /\ UNCHANGED <<conn, sessVars, registry, chunks, prechunk, resent, initTasks, selfEcho, motd, world, clientName, sent, fails,
                 lastPacket>>
  /\ UNCHANGED playVars

\* the callback chain returns to the reactor
ChainEnd(s) ==
  /\ InChain(s, "end")
  /\ run' = Idle
  /\ UNCHANGED <<conn, sessVars, registry, chunkVars, selfEcho, motd, world, clientName, sent, fails, lastPacket>>
  /\ UNCHANGED playVars

\* ------------------------------------------------------------ digging
\* dig_policy.is_1ko(block, tool) for the tool the player holds
Is1ko(block) == block = "dirt"

\* dig_policy.dig_time(block, tool) for the tool the player holds, in ticks
DigTime(block) == IF block = "stone" THEN 2 ELSE 1

\* blocks[block].breakable
Breakable(block) == block # "bedrock"

Max(a, b) == IF a > b THEN a ELSE b

\* mutant: the pipeline is scheduled without delay
DigDelayNone(dtime) == 0

\* max(dtime, 0) with dtime -= time()
DigDelay(dtime) == Max(dtime - now, 0)

DigHooks == 1..NumDigHooks

\* the hooks in the order of self.dig_hooks
HookSeq == [h \in DigHooks |-> h]

\* mutant: the DeferredList fires without waiting for its members
FlushDueAtOnce(pending) == TRUE

\* dl = DeferredList(l) fires when every Deferred of l has fired
FlushDue(pending) == pending = {}

\* run_dig_hooks: chunk.destroy(coords) if the block is breakable, then every dig
\* hook is called with the block; the hooks of async return a Deferred that has
\* not fired; flush_chunk(chunk) is the callback of the DeferredList
RunDigHooks(s, p, block, dtime, since, via) ==
  /\ blockAt' = IF Breakable(block) THEN [blockAt EXCEPT ![p] = "air"] ELSE blockAt
  /\ digDone' = [n |-> digDone.n + 1, s |-> s, pos |-> p, block |-> block, at |-> now,
                 dtime |-> dtime, since |-> since, via |-> via]
  /\ \E async \in SUBSET DigHooks :
       digHooks' = Append(digHooks,
                          [block |-> block, called |-> HookSeq, async |-> async,
                           pending |-> async,
                           flushed |-> IF FlushDue(async) THEN 1 ELSE 0])

\* the Deferred of a dig hook fires, with a result or with a failure
DigHookDone(r, h) ==
  /\ run = Idle
  /\ r \in 1..Len(digHooks)
  /\ h \in digHooks[r].pending
  /\ digHooks' = [digHooks EXCEPT
                    ![r].pending = @ \ {h},
                    ![r].flushed = IF FlushDue(digHooks[r].pending \ {h}) THEN @ + 1 ELSE @]
  /\ lastPacket' = NoPacket
  /\ UNCHANGED <<conn, sessVars, registry, chunkVars, run, selfEcho, motd, world, clientName,
                 sent, fails, now, lastDig, digTimers, blockAt, digDone, buildVars, tiles, gives>>

\* mutant: the one-shot branch records the dig in last_dig as well
DigStartedRecordsOneShot(s, p, block) ==
  IF ~player[s]
    THEN run' = Abort(s) /\ UNCHANGED <<lastDig, digTimers, blockAt, digDone, digHooks>>
    ELSE /\ IF Is1ko(block)
              THEN RunDigHooks(s, p, block, now, now, "1ko")
              ELSE UNCHANGED <<blockAt, digDone, digHooks>>
         /\ lastDig' = [lastDig EXCEPT ![s] =
                          [coords |-> p[2], block |-> block,
                           dtime |-> now + DigTime(block), since |-> now,
                           pos |-> p, matched |-> FALSE]]
         /\ UNCHANGED <<run, digTimers>>

\* digging, state "started": tool = self.player.inventory.holdables[...]; a
\* one-shot block runs the pipeline at once, any other block sets last_dig
DigStarted(s, p, block) ==
  IF ~player[s]
    THEN run' = Abort(s) /\ UNCHANGED <<lastDig, digTimers, blockAt, digDone, digHooks>>
    ELSE IF Is1ko(block)
           THEN /\ RunDigHooks(s, p, block, now, now, "1ko")
                /\ UNCHANGED <<run, lastDig, digTimers>>
           ELSE /\ lastDig' = [lastDig EXCEPT ![s] =
                                 [coords |-> p[2], block |-> block,
                                  dtime |-> now + DigTime(block), since |-> now,
                                  pos |-> p, matched |-> FALSE]]
                /\ UNCHANGED <<run, digTimers, blockAt, digDone, digHooks>>

\* digging, state "stopped": without last_dig nothing; on other coords or another
\* block last_dig is cleared; else the pipeline is scheduled with deferLater
DigStopped(s, p, block) ==
  IF lastDig[s] = NoDig
    THEN UNCHANGED <<run, lastDig, digTimers, blockAt, digDone, digHooks>>
    ELSE IF lastDig[s].coords # p[2] \/ lastDig[s].block # block
           THEN /\ lastDig' = [lastDig EXCEPT ![s] = NoDig]
                /\ UNCHANGED <<run, digTimers, blockAt, digDone, digHooks>>
           ELSE /\ Len(digTimers) < MaxTimers
                /\ digTimers' = Append(digTimers,
                     [s |-> s, pos |-> p, block |-> block,
                      dtime |-> lastDig[s].dtime, since |-> lastDig[s].since,
                      due |-> now + DigDelay(lastDig[s].dtime)])
                /\ lastDig' = [lastDig EXCEPT ![s].matched = TRUE]
                /\ UNCHANGED <<run, blockAt, digDone, digHooks>>

\* BravoProtocol.digging with state "started" or "stopped" for the block at p
Digging(s, st, p) ==
  /\ Receiving(s, MaxDigPackets)
  /\ IF p[1] \notin chunks[s]
       THEN /\ Error(s)
            /\ lastPacket' = Packet("digging", s, <<st, p>>, 1)
            /\ UNCHANGED <<run, digVars>>
       ELSE /\ lastPacket' = Packet("digging", s, <<st, p>>, 0)
            /\ UNCHANGED <<conn, now>>
            /\ IF st = "started"
                 THEN DigStarted(s, p, blockAt[p])
                 ELSE DigStopped(s, p, blockAt[p])
  /\ UNCHANGED <<sessVars, registry, chunkVars, selfEcho, motd, world, clientName, fails,
                 buildVars, tiles, gives>>

\* a deferLater of digging fires: run_dig_hooks, then setattr(self, "last_dig", None)
DigFire(k) ==
  /\ run = Idle
  /\ k \in 1..Len(digTimers)
  /\ digTimers[k].due <= now
  /\ RunDigHooks(digTimers[k].s, digTimers[k].pos, digTimers[k].block, digTimers[k].dtime,
                 digTimers[k].since, "timer")
  /\ lastDig' = [lastDig EXCEPT ![digTimers[k].s] = NoDig]
  /\ digTimers' = RemoveAt(digTimers, k)
  /\ lastPacket' = NoPacket
  /\ UNCHANGED <<conn, sessVars, registry, chunkVars, run, selfEcho, motd, world, clientName,
                 sent, fails, now, buildVars, tiles, gives>>

\* the clock advances
Tick ==
  /\ run = Idle
  /\ now < MaxTime
  /\ now' = now + 1
  /\ lastPacket' = NoPacket
  /\ UNCHANGED <<conn, sessVars, registry, chunkVars, run, selfEcho, motd, world, clientName,
                 sent, fails, lastDig, digTimers, blockAt, digDone, digHooks, buildVars, tiles, gives>>

\* ------------------------------------------------------------ build
\* the block and item tables: blocks can be placed, "shovel" is an item
Known(primary) == primary \in {"stone", "torch", "shovel"}

\* block.slot in blocks
IsBlock(block) == block \in {"stone", "torch"}

\* block.drop: stone drops cobblestone
Drop(block) == IF block = "stone" THEN "cobble" ELSE block

\* block.orientable()
Orientable(block) == block = "torch"

\* block.orientation(face): the metadata, or None (here -1) when the block cannot
\* be placed on the face
Orientation(block, face) == IF face = "-y" THEN 0 - 1 ELSE 1

\* the face vector that run_build adds to its copy of the coordinates (y only;
\* coordinates are kept relative to the clicked block)
FaceOffset(face) == IF face = "+y" THEN 1 ELSE IF face = "-y" THEN 0 - 1 ELSE 0

\* the metadata run_build goes on with: "if not metadata and block.orientable()"
Oriented(b) ==
  IF b.meta = 0 /\ Orientable(b.block) THEN Orientation(b.block, b.face) ELSE b.meta

\* inventory.consume((item, 0), equipped): one item less when the held slot has
\* that item, else False and no change
CanConsume(h, item) == h.item = item /\ h.count > 0

Consume(h) == IF h.count = 1 THEN NoItem ELSE [h EXCEPT !.count = @ - 1]

HeldStates ==
  {NoItem} \cup {[item |-> it, count |-> n] : it \in {"stone", "cobble", "torch"},
                                               n \in 1..MaxHeld}

BuildPackets ==
  [sentinel : BOOLEAN, chunk : BuildChunks, target : Targets, primary : Primaries,
   face : Faces, y : Heights]

\* builddata = BuildData(block, 0x0, x, y, z, face), and what the call has done
NewBuild(s, pkt) ==
  [s |-> s, pc |-> IF NumPreHooks = 0 THEN "run_build" ELSE "pre",
   block |-> pkt.primary, meta |-> 0, face |-> pkt.face,
   pre |-> 0, vetoed |-> FALSE, took |-> FALSE, setBlock |-> None, setMeta |-> None,
   post |-> 0, fed |-> FALSE, invSent |-> FALSE, flushed |-> 0,
   setAt |-> 0, fedAt |-> 0]

\* mutant: the window is stored but self.wid stays
OpenWorkbenchKeepsWid(s) ==
  /\ windows' = [windows EXCEPT ![s] = @ \cup {wid[s]}]
  /\ UNCHANGED wid

\* build on a workbench: the window is stored under self.wid, then self.wid += 1
OpenWorkbench(s) ==
  /\ windows' = [windows EXCEPT ![s] = @ \cup {wid[s]}]
  /\ wid' = [wid EXCEPT ![s] = @ + 1]

\* BravoProtocol.build up to its first yield
Build(s, pkt) ==
  /\ Receiving(s, MaxBuildPackets)
  /\ IF pkt.sentinel
       THEN UNCHANGED <<conn, builds, wid, windows>>
       ELSE IF pkt.chunk \notin chunks[s]
         THEN Error(s) /\ UNCHANGED <<builds, wid, windows>>
         ELSE IF pkt.target = "workbench"
           THEN /\ OpenWorkbench(s)
                /\ UNCHANGED <<conn, builds>>
           ELSE IF \/ pkt.primary = "-1"
                   \/ pkt.face = "noop"
                   \/ ~Known(pkt.primary)
                   \/ (pkt.y = 127 /\ pkt.face = "+y")
             THEN UNCHANGED <<conn, builds, wid, windows>>
             ELSE /\ Len(builds) < MaxBuilds
                  /\ builds' = Append(builds, NewBuild(s, pkt))
                  /\ UNCHANGED <<conn, wid, windows>>
  /\ lastPacket' = Packet("build", s, pkt,
                          IF ~pkt.sentinel /\ pkt.chunk \notin chunks[s] THEN 1 ELSE 0)
  /\ UNCHANGED <<sessVars, registry, chunkVars, run, selfEcho, motd, world, clientName,
                 fails, digVars, held, built, tiles, gives>>

AtBuild(i, pc) == run = Idle /\ i \in 1..Len(builds) /\ builds[i].pc = pc

BuildSame == UNCHANGED <<conn, sessVars, registry, chunkVars, run, selfEcho, motd, world,
                         clientName, sent, digVars, wid, windows, tiles, gives>>

\* the next pre-build hook returns (cont, builddata); "if not cont: break" leaves
\* the loop, and the statements after the loop follow
BuildPreHook(i, cont, mutate) ==
  /\ AtBuild(i, "pre")
  /\ builds' = [builds EXCEPT
                  ![i].pre = @ + 1,
                  ![i].meta = IF mutate THEN 3 ELSE @,
                  ![i].vetoed = ~cont,
                  ![i].pc = IF ~cont \/ builds[i].pre + 1 = NumPreHooks
                              THEN "run_build" ELSE "pre"]
  /\ lastPacket' = NoPacket
  /\ BuildSame
  /\ UNCHANGED <<held, built, fails>>

\* except BuildError: return
BuildFails(i) == builds' = [builds EXCEPT ![i].pc = "build_error"]

\* mutant: run_build takes the item from the inventory before it looks at the
\* orientation
RunBuildConsumesFirst(i) ==
  LET b == builds[i]
      h == held[b.s]
  IN IF ~IsBlock(b.block)
       THEN BuildFails(i) /\ UNCHANGED held
       ELSE IF ~CanConsume(h, b.block) /\ ~CanConsume(h, Drop(b.block))
         THEN BuildFails(i) /\ UNCHANGED held
         ELSE /\ held' = [held EXCEPT ![b.s] = Consume(h)]
              /\ IF Oriented(b) < 0
                   THEN BuildFails(i)
                   ELSE builds' = [builds EXCEPT
                          ![i].pc = "setting", ![i].meta = Oriented(b), ![i].took = TRUE,
                          ![i].setBlock = "pending", ![i].setAt = FaceOffset(b.face),
                          ![i].setMeta = IF Oriented(b) # 0 THEN "pending" ELSE None]

\* run_build: BuildError for an item, for a face the block cannot be oriented on
\* and for a held slot without the block and without its drop; else one item is
\* consumed and set_block and (with metadata) set_metadata are called
RunBuild(i) ==
  LET b == builds[i]
      h == held[b.s]
  IN IF ~IsBlock(b.block)
       THEN BuildFails(i) /\ UNCHANGED held
       ELSE IF Oriented(b) < 0
         THEN BuildFails(i) /\ UNCHANGED held
         ELSE IF ~CanConsume(h, b.block) /\ ~CanConsume(h, Drop(b.block))
           THEN BuildFails(i) /\ UNCHANGED held
           ELSE /\ held' = [held EXCEPT ![b.s] = Consume(h)]
                /\ builds' = [builds EXCEPT
                     ![i].pc = "setting", ![i].meta = Oriented(b), ![i].took = TRUE,
                     ![i].setBlock = "pending", ![i].setAt = FaceOffset(b.face),
                     ![i].setMeta = IF Oriented(b) # 0 THEN "pending" ELSE None]

\* yield maybeDeferred(self.run_build, builddata)
BuildRun(i) ==
  /\ AtBuild(i, "run_build")
  /\ RunBuild(i)
  /\ lastPacket' = NoPacket
  /\ BuildSame
  /\ UNCHANGED <<built, fails>>

\* DeferredList(dl) fires when every Deferred of dl has fired, with a failure or not
AfterSet(other) ==
  IF other = "pending" THEN "setting"
  ELSE IF NumPostHooks = 0 THEN "finish" ELSE "post"

\* world.set_block is done, or fails with a WorldError
BuildSetBlockReply(i, ok) ==
  /\ AtBuild(i, "setting")
  /\ builds[i].setBlock = "pending"
  /\ WorldReply(ok)
  /\ builds' = [builds EXCEPT ![i].setBlock = IF ok THEN "ok" ELSE "failed",
                              ![i].pc = AfterSet(builds[i].setMeta)]
  /\ built' = IF ok THEN [built EXCEPT ![builds[i].face].block = builds[i].block] ELSE built
  /\ lastPacket' = NoPacket
  /\ BuildSame
  /\ UNCHANGED held

\* world.set_metadata is done, or fails with a WorldError
BuildSetMetaReply(i, ok) ==
  /\ AtBuild(i, "setting")
  /\ builds[i].setMeta = "pending"
  /\ WorldReply(ok)
  /\ builds' = [builds EXCEPT ![i].setMeta = IF ok THEN "ok" ELSE "failed",
                              ![i].pc = AfterSet(builds[i].setBlock)]
  /\ built' = IF ok THEN [built EXCEPT ![builds[i].face].meta = builds[i].meta] ELSE built
  /\ lastPacket' = NoPacket
  /\ BuildSame
  /\ UNCHANGED held

\* the next post-build hook
BuildPostHook(i) ==
  /\ AtBuild(i, "post")
  /\ builds' = [builds EXCEPT
                  ![i].post = @ + 1,
                  ![i].pc = IF builds[i].post + 1 = NumPostHooks THEN "finish" ELSE "post"]
  /\ lastPacket' = NoPacket
  /\ BuildSame
  /\ UNCHANGED <<held, built, fails>>

\* the automatons are fed with (builddata.x, builddata.y, builddata.z), which
\* run_build has not changed; the inventory is sent again, the chunks are flushed
BuildFinish(i) ==
  /\ AtBuild(i, "finish")
  /\ builds' = [builds EXCEPT ![i].fed = TRUE, ![i].fedAt = 0, ![i].invSent = TRUE,
                              ![i].flushed = @ + 1, ![i].pc = "done"]
  /\ lastPacket' = NoPacket
  /\ BuildSame
  /\ UNCHANGED <<held, built, fails>>

\* ------------------------------------------------------------ signs
SignTexts == {"a", "b"}

\* mutant: sign without the lookup of the chunk
SignUpserts(s, c, text) ==
  /\ Receiving(s, MaxBuildPackets)
  /\ tiles' = [text |-> [tiles.text EXCEPT ![c] = text], hooks |-> tiles.hooks + 1]
  /\ lastPacket' = Packet("sign", s, c, 0)
  /\ UNCHANGED <<conn, sessVars, registry, chunkVars, run, selfEcho, motd, world, clientName,
                 fails, digVars, buildVars, gives>>

\* BravoProtocol.sign for a sign in chunk c: error without the chunk; else the
\* tile is made or updated, the chunk is dirty, the packet is broadcast and the
\* sign hooks are called
Sign(s, c, text) ==
  /\ Receiving(s, MaxBuildPackets)
  /\ IF c \notin chunks[s]
       THEN Error(s) /\ UNCHANGED tiles
       ELSE /\ tiles' = [text |-> [tiles.text EXCEPT ![c] = text],
                         hooks |-> tiles.hooks + 1]
            /\ UNCHANGED conn
  /\ lastPacket' = Packet("sign", s, c, IF c \notin chunks[s] THEN 1 ELSE 0)
  /\ UNCHANGED <<sessVars, registry, chunkVars, run, selfEcho, motd, world, clientName,
                 fails, digVars, buildVars, gives>>

\* ------------------------------------------------------------ windows
\* the window ids a client puts into wclose and waction packets
Wids == 0..(MaxWid + 1)

\* BravoProtocol.wclose: a window of self.windows is deleted, wid 0 is passed
\* over, any other wid is an error (the items of a window are not modelled)
Wclose(s, w) ==
  /\ Receiving(s, MaxDigPackets)
  /\ IF w \in windows[s]
       THEN windows' = [windows EXCEPT ![s] = @ \ {w}] /\ UNCHANGED conn
       ELSE IF w = 0
         THEN UNCHANGED <<conn, windows>>
         ELSE Error(s) /\ UNCHANGED windows
  /\ lastPacket' = Packet("wclose", s, w, IF w # 0 /\ w \notin windows[s] THEN 1 ELSE 0)
  /\ UNCHANGED <<sessVars, registry, chunkVars, run, selfEcho, motd, world, clientName,
                 fails, digVars, builds, held, built, wid, tiles, gives>>

\* BravoProtocol.waction: i is the inventory for wid 0 and the window for a
\* key of self.windows; for any other wid error() is called and the handler
\* goes on to i.select with i unbound, which raises. A select that succeeds
\* may change the held slot.
Waction(s, w, selected) ==
  /\ Receiving(s, MaxDigPackets)
  /\ IF w = 0 \/ w \in windows[s]
       THEN /\ held' \in {h \in [Sessions -> HeldStates] :
                            /\ \A o \in Sessions : o # s => h[o] = held[o]
                            /\ ~selected => h = held}
            /\ UNCHANGED <<conn, run>>
       ELSE /\ ~selected
            /\ Error(s)
            /\ run' = Abort(s)
            /\ UNCHANGED held
  /\ lastPacket' = Packet("waction", s, w, IF w # 0 /\ w \notin windows[s] THEN 1 ELSE 0)
  /\ UNCHANGED <<sessVars, registry, chunkVars, selfEcho, motd, world, clientName,
                 fails, digVars, builds, built, wid, windows, tiles, gives>>

\* ------------------------------------------------------------ pickup
\* BravoProtocol.pickup: factory.give with the coordinates, item and count of
\* the packet, whatever the state of the session
Pickup(s) ==
  /\ Dispatching(s)
  /\ gives < MaxGives
  /\ gives' = gives + 1
  /\ lastPacket' = Packet("pickup", s, 0, 0)
  /\ UNCHANGED <<conn, sessVars, registry, chunkVars, run, selfEcho, motd, world,
                 clientName, fails, digVars, buildVars, tiles>>

\* ------------------------------------------------------------ disconnect
\* BravoProtocol.connectionLost (BetaServerProtocol.connectionLost is not called)
ConnectionLost(s) ==
  /\ run = Idle \/ run = Abort(s)
  /\ conn[s] \notin {"lost", "absent"}
  /\ CanStop(s)
  /\ run' = Idle
  /\ conn' = [conn EXCEPT ![s] = "lost"]
  /\ timeLoop' = [timeLoop EXCEPT ![s] = IF @ = None THEN @ ELSE "stopped"]
  /\ enTask' = [enTask EXCEPT ![s] = StopTask(@)]
  /\ disTask' = [disTask EXCEPT ![s] = StopTask(@)]
  /\ orphans' = OrphansAfterStop(s)
  /\ registry' = IF username[s] \in Names
                   THEN [registry EXCEPT ![username[s]] = 0]
                   ELSE registry
  /\ lastPacket' = NoPacket
  /\ UNCHANGED <<state, username, player, loc, hookPending, authStage, pingRunning,
                 chunks, prechunk, resent, initTasks, selfEcho, motd, world, clientName, sent, fails>>
  /\ UNCHANGED playVars

\* ------------------------------------------------------------ specification
Next ==
  \/ \E s \in Sessions : Handshake(s)
  \/ \E s \in Sessions, proto \in Protocols : Login(s, proto)
  \/ \E s \in Sessions, ok \in BOOLEAN : LoginHookDone(s, ok)
  \/ \E s \in Sessions : LoadPlayerDone(s)
  \/ \E s \in Sessions : AuthAnnounce(s)
  \/ \E s \in Sessions : AuthAvatarOut(s)
  \/ \E s \in Sessions : AuthAvatarsIn(s)
  \/ \E s \in Sessions : AuthRegister(s)
  \/ \E s \in Sessions : AuthSpawn(s)
  \/ \E s \in Sessions : AuthInitial(s)
  \/ \E s \in Sessions : AuthTimeLoop(s)
  \/ \E s \in Sessions, k \in 1..MaxRuns : InitStep(s, k)
  \/ \E s \in Sessions, k \in 1..MaxRuns, ok \in BOOLEAN : InitReply(s, k, ok)
  \/ \E s \in Sessions, k \in 1..MaxRuns : InitDone(s, k)
  \/ \E s \in Sessions : EnableStep(s)
  \/ \E s \in Sessions : EnableDone(s)
  \/ \E s \in Sessions, ok \in BOOLEAN : EnableReply(s, ok)
  \/ \E s \in Sessions, c \in Coords, ok \in BOOLEAN : OrphanReply(s, c, ok)
  \/ \E s \in Sessions : DisableStep(s)
  \/ \E s \in Sessions, p \in PlayerChunks : Position(s, p)
  \/ \E s \in Sessions, p \in PlayerChunks : Warp(s, p)
  \/ \E s \in Sessions : ChainLocation(s)
  \/ \E s \in Sessions : ChainPositionChanged(s)
  \/ \E s \in Sessions : ChainMotd(s)
  \/ \E s \in Sessions : ChainUpdate(s)
  \/ \E s \in Sessions : ChainEnd(s)
  \/ \E s \in Sessions : Pickup(s)
  \/ \E s \in Sessions : ConnectionLost(s)

Spec == Init /\ [][Next]_vars

\* the steps that the reactor takes by itself: Deferreds that fire and the
\* steps of cooperative tasks and of callback chains, and the connectionLost
\* that follows an exception out of dataReceived (not the packets and the
\* disconnect of the client)
Reactor ==
  \/ \E s \in Sessions : run = Abort(s) /\ ConnectionLost(s)
  \/ \E s \in Sessions, ok \in BOOLEAN : LoginHookDone(s, ok)
  \/ \E s \in Sessions : LoadPlayerDone(s)
  \/ \E s \in Sessions : AuthAnnounce(s)
  \/ \E s \in Sessions : AuthAvatarOut(s)
  \/ \E s \in Sessions : AuthAvatarsIn(s)
  \/ \E s \in Sessions : AuthRegister(s)
  \/ \E s \in Sessions : AuthSpawn(s)
  \/ \E s \in Sessions : AuthInitial(s)
  \/ \E s \in Sessions : AuthTimeLoop(s)
  \/ \E s \in Sessions, k \in 1..MaxRuns : InitStep(s, k)
  \/ \E s \in Sessions, k \in 1..MaxRuns, ok \in BOOLEAN : InitReply(s, k, ok)
  \/ \E s \in Sessions, k \in 1..MaxRuns : InitDone(s, k)
  \/ \E s \in Sessions : EnableStep(s)
  \/ \E s \in Sessions : EnableDone(s)
  \/ \E s \in Sessions, ok \in BOOLEAN : EnableReply(s, ok)
  \/ \E s \in Sessions, c \in Coords, ok \in BOOLEAN : OrphanReply(s, c, ok)
  \/ \E s \in Sessions : DisableStep(s)
  \/ \E s \in Sessions : ChainLocation(s)
  \/ \E s \in Sessions : ChainPositionChanged(s)
  \/ \E s \in Sessions : ChainMotd(s)
  \/ \E s \in Sessions : ChainUpdate(s)
  \/ \E s \in Sessions : ChainEnd(s)

\* the reactor runs every call that is ready: a step of the reactor that can
\* be taken is taken in the end
InitLive == Init /\ world = "up"

SpecLive == InitLive /\ [][Next]_vars /\ WF_vars(Reactor)

\* a session that plays: it went through authenticated(), its initial square
\* and its visible circle are sent, update_chunks has run twice and its tasks
\* have ended (the disable task at the first chunk it had to disable)
Playing ==
  /\ world = "up"
  /\ clientName = [s \in Sessions |-> "alice"]
  /\ conn = [s \in Sessions |-> IF s = 1 THEN "open" ELSE "absent"]
  /\ state = [s \in Sessions |-> IF s = 1 THEN STATE_AUTHENTICATED ELSE STATE_UNAUTHENTICATED]
  /\ username = [s \in Sessions |-> IF s = 1 THEN "alice" ELSE None]
  /\ player = [s \in Sessions |-> s = 1]
  /\ loc = [s \in Sessions |-> <<0, 0>>]
  /\ hookPending = [s \in Sessions |-> FALSE]
  /\ authStage = [s \in Sessions |-> IF s = 1 THEN "done" ELSE None]
  /\ pingRunning = [s \in Sessions |-> s = 1]
  /\ timeLoop = [s \in Sessions |-> IF s = 1 THEN "running" ELSE None]
  /\ registry = [n \in Names |-> IF n = "alice" THEN 1 ELSE 0]
  /\ chunks = [s \in Sessions |->
                 IF s = 1 THEN Square(<<0, 0>>) \cup Visible(<<0, 0>>) ELSE {}]
  /\ prechunk = chunks
  /\ resent = [s \in Sessions |-> FALSE]
  /\ initTasks = [s \in Sessions |-> <<>>]
  /\ enTask = [s \in Sessions |-> IF s = 1 THEN [NoTask EXCEPT !.st = "done"] ELSE NoTask]
  /\ disTask = [s \in Sessions |->
                  IF s = 1
                    THEN [NoTask EXCEPT
                            !.st = IF Square(<<0, 0>>) \subseteq Visible(<<0, 0>>)
                                     THEN "done" ELSE "failed",
                            !.todo = Square(<<0, 0>>) \ Visible(<<0, 0>>)]
                    ELSE NoTask]
  /\ orphans = [s \in Sessions |-> [c \in Coords |-> 0]]
  /\ run = Idle
  /\ selfEcho = [s \in Sessions |-> FALSE]
  /\ motd = FALSE
  /\ fails = 0
  /\ lastPacket = NoPacket

\* digging by a session that plays
InitDig == Playing /\ sent = 1 /\ InitDigVars /\ InitBuildVars

NextDig ==
  \/ \E s \in Sessions, st \in {"started", "stopped"}, p \in DigPos : Digging(s, st, p)
  \/ \E k \in 1..MaxTimers : DigFire(k)
  \/ \E r \in 1..MaxDigPackets, h \in DigHooks : DigHookDone(r, h)
  \/ Tick
  \/ \E s \in Sessions : ConnectionLost(s)

SpecDig == InitDig /\ [][NextDig]_vars

\* builds by a session that plays, with any item in its hand
InitBuild ==
  /\ Playing
  /\ sent = 1
  /\ InitDigVars
  /\ builds = <<>>
  /\ held \in [Sessions -> HeldStates]
  /\ \A s \in Sessions : s # 1 => held[s] = NoItem
  /\ built = [f \in PlaceFaces |-> NoBlock]
  /\ wid = [s \in Sessions |-> 1]
  /\ windows = [s \in Sessions |-> {}]
  /\ tiles = NoTiles
  /\ gives = 0

NextBuild ==
  \/ \E s \in Sessions, pkt \in BuildPackets : Build(s, pkt)
  \/ \E i \in 1..MaxBuilds, cont \in BOOLEAN, mutate \in BOOLEAN : BuildPreHook(i, cont, mutate)
  \/ \E i \in 1..MaxBuilds : BuildRun(i)
  \/ \E i \in 1..MaxBuilds, ok \in BOOLEAN : BuildSetBlockReply(i, ok)
  \/ \E i \in 1..MaxBuilds, ok \in BOOLEAN : BuildSetMetaReply(i, ok)
  \/ \E i \in 1..MaxBuilds : BuildPostHook(i)
  \/ \E i \in 1..MaxBuilds : BuildFinish(i)

SpecBuild == InitBuild /\ [][NextBuild]_vars

\* the packet handlers of a session that plays, each up to its first yield; a
\* packet was dispatched before (sent = 2), so that one build or sign packet and
\* two digging or window packets are within the bounds. The session may have
\* opened and closed windows before: self.wid is 1..MaxWid, and any of the
\* windows opened so far may still be open.
InitPackets ==
  /\ Playing
  /\ sent = MaxBuildPackets - 1
  /\ InitDigVars
  /\ builds = <<>>
  /\ held = [s \in Sessions |-> NoItem]
  /\ built = [f \in PlaceFaces |-> NoBlock]
  /\ wid \in [Sessions -> 1..MaxWid]
  /\ windows \in [Sessions -> SUBSET (1..(MaxWid - 1))]
  /\ \A s \in Sessions : (s # 1 => wid[s] = 1) /\ windows[s] \subseteq 1..(wid[s] - 1)
  /\ tiles = NoTiles
  /\ gives = 0

NextPackets ==
  \/ \E s \in Sessions, st \in {"started", "stopped"}, p \in DigPos : Digging(s, st, p)
  \/ \E s \in Sessions, pkt \in BuildPackets : Build(s, pkt)
  \/ \E s \in Sessions, c \in BuildChunks, text \in SignTexts : Sign(s, c, text)
  \/ \E s \in Sessions, w \in Wids : Wclose(s, w)
  \/ \E s \in Sessions, w \in Wids, selected \in BOOLEAN : Waction(s, w, selected)

SpecPackets == InitPackets /\ [][NextPackets]_vars


\* ------------------------------------------------------------ claims
InRegistry(s) == \E n \in Names : registry[n] = s

Registered(s) == username[s] \in Names /\ registry[username[s]] # 0

\* C1: a session becomes AUTHENTICATED only from CHALLENGED: when the login hook
\* of a version 11 login succeeds and the state changes to AUTHENTICATED, the
\* state before was CHALLENGED, never UNAUTHENTICATED
C1_AuthenticatedOnlyAfterChallenged ==
  [][\A s \in Sessions :
       (/\ lastPacket'.op = "login_hook" /\ lastPacket'.s = s /\ lastPacket'.arg = 1
        /\ state[s] # STATE_AUTHENTICATED
        /\ state'[s] = STATE_AUTHENTICATED)
       => state[s] = STATE_CHALLENGED]_vars

\* C2: in every reachable state, a session is AUTHENTICATED if and only if its
\* player is loaded and the session is in the registry
C2_AuthenticatedIffPlayerAndRegistered ==
  \A s \in Sessions :
    (state[s] = STATE_AUTHENTICATED) <=> (player[s] /\ InRegistry(s))

\* C3: between handlers, for every connected AUTHENTICATED session the player is
\* loaded if and only if the username of the session is a key of the registry
C3_PlayerIffUsernameRegistered ==
  run = Idle =>
    \A s \in Sessions :
      (state[s] = STATE_AUTHENTICATED /\ conn[s] \in {"open", "closing"})
        => (player[s] <=> Registered(s))

\* C4: no prechunk enabled=1 is written for a chunk whose last prechunk packet
\* was enabled=1 already: at most one since the last enabled=0 or since connect
C4_AtMostOnePrechunk == \A s \in Sessions : ~resent[s]

\* C5: between steps, a chunk is a key of session.chunks if and only if the last
\* prechunk packet written for it was enabled=1
C5_CachedIffEnabled == \A s \in Sessions : chunks[s] = prechunk[s]

C5_Witness ==
  \E s \in Sessions : chunks[s] # {} /\ disTask[s].st = "failed" /\ disTask[s].todo # {}

C10_VersionMismatch ==
  [][\A s \in Sessions :
       (/\ lastPacket'.op = "login" /\ lastPacket'.s = s
        /\ lastPacket'.arg # SUPPORTED_PROTOCOL)
       => /\ lastPacket'.err = 1
          /\ conn'[s] = "closing"
          /\ hookPending' = hookPending
          /\ username' = username
          /\ authStage' = authStage
          /\ pingRunning' = pingRunning
          /\ state' = state
          /\ player' = player
          /\ registry' = registry]_vars

C10_Witness ==
  /\ lastPacket.op = "login"
  /\ lastPacket.arg = SUPPORTED_PROTOCOL + 1
  /\ lastPacket.err = 1
  /\ conn[lastPacket.s] = "closing"
  /\ state[lastPacket.s] = STATE_CHALLENGED

\* C11: when the login hook fails, the connection is closed and authenticated()
\* is not called: the state, the progress of authenticated() and the ping loop
\* of the session stay as they were
C11_HookFailureNeverAuthenticates ==
  [][\A s \in Sessions :
       (lastPacket'.op = "login_hook" /\ lastPacket'.s = s /\ lastPacket'.arg = 0)
       => /\ conn'[s] # "open"
          /\ state'[s] = state[s]
          /\ authStage'[s] = authStage[s]
          /\ pingRunning'[s] = pingRunning[s]]_vars

\* C12: after connectionLost of a session neither its ping loop nor its time
\* loop is running
C12_LoopsStoppedAfterConnectionLost ==
  \A s \in Sessions :
    conn[s] = "lost" => (~pingRunning[s] /\ timeLoop[s] # "running")

WaitingInit(s) == {k \in 1..Len(initTasks[s]) : initTasks[s][k].wait}

\* C13: after connectionLost of a session no step writes a prechunk or chunk
\* packet for it, inserts a chunk into its cache or issues a request_chunk for it
C13_NoStreamingAfterConnectionLost ==
  [][\A s \in Sessions :
       conn[s] = "lost"
       => /\ chunks'[s] = chunks[s]
          /\ prechunk'[s] = prechunk[s]
          /\ Cardinality(WaitingInit(s))' <= Cardinality(WaitingInit(s))]_vars

\* C15: once connectionLost has run for a session, the session is no value of
\* the registry
C15_NeverRegisteredAfterConnectionLost ==
  \A s \in Sessions : conn[s] = "lost" => ~InRegistry(s)

\* C14: after connectionLost of a session no dig pipeline runs on its behalf: no
\* block is destroyed, no dig hook is invoked, no chunk is flushed
C14_NoDigAfterConnectionLost ==
  [][\A s \in Sessions :
       conn[s] = "lost" => ~(digDone'.n # digDone.n /\ digDone'.s = s)]_vars

\* C19: a block of the world changes only when the dig pipeline runs for it, and
\* for a block that is not one-shot the pipeline runs from the timer, not
\* earlier than dig_time after the "started" packet that the "stopped" matched
C19_NotBeforeDigTime ==
  [][/\ \A p \in DigPos :
          blockAt'[p] # blockAt[p] => (digDone'.n = digDone.n + 1 /\ digDone'.pos = p)
     /\ (digDone'.n # digDone.n /\ digDone'.block \notin {"dirt"})
          => /\ digDone'.via = "timer"
             /\ digDone'.at = now
             /\ now >= digDone'.since + DigTime(digDone'.block)]_vars

C19_Witness ==
  /\ digDone.via = "timer"
  /\ digDone.block = "stone"
  /\ blockAt[digDone.pos] = "air"
  /\ digDone.at = digDone.since + DigTime("stone")

\* C20: a "started" packet on a one-shot block runs the dig pipeline within the
\* handling of the packet and leaves last_dig as it was
C20_OneShotImmediate ==
  [][\A s \in Sessions, p \in DigPos :
       (/\ lastPacket'.op = "digging" /\ lastPacket'.s = s /\ lastPacket'.err = 0
        /\ lastPacket'.arg = <<"started", p>>
        /\ blockAt[p] = "dirt")
       => /\ digDone'.n = digDone.n + 1
          /\ digDone'.pos = p /\ digDone'.s = s /\ digDone'.via = "1ko"
          /\ blockAt'[p] = "air"
          /\ lastDig' = lastDig
          /\ digTimers' = digTimers]_vars

C20_Witness ==
  /\ lastPacket.op = "digging"
  /\ digDone.via = "1ko"
  /\ digDone.at = now
  /\ blockAt[digDone.pos] = "air"
  /\ lastDig[digDone.s] = NoDig

\* C16: when a pre-build hook returns continue = false, no later pre-build hook
\* runs, nothing is consumed from the inventory, set_block and set_metadata are
\* not called, and no post-build hook, automaton feed or flush follows
C16_VetoSkipsCommit ==
  \A i \in 1..Len(builds) :
    builds[i].vetoed =>
      /\ builds[i].pc # "pre"
      /\ ~builds[i].took
      /\ builds[i].setBlock = None /\ builds[i].setMeta = None
      /\ builds[i].post = 0 /\ ~builds[i].fed /\ builds[i].flushed = 0

\* C17: when run_build fails with BuildError the build is silently aborted: the
\* world and the inventory are unchanged, no post-build hook runs, no automaton
\* is fed, no inventory packet is sent, nothing is flushed, and the connection
\* stays open
C17_BuildErrorAbortsSilently ==
  [][\A i \in 1..Len(builds) :
       /\ (builds[i].pc = "run_build" /\ builds'[i].pc = "build_error")
            => held' = held /\ built' = built /\ conn' = conn
       /\ builds'[i].pc = "build_error"
            => /\ builds[i].pc \in {"run_build", "build_error"}
               /\ ~builds'[i].took
               /\ builds'[i].setBlock = None /\ builds'[i].setMeta = None
               /\ builds'[i].post = 0 /\ ~builds'[i].fed
               /\ ~builds'[i].invSent /\ builds'[i].flushed = 0
       /\ builds[i].pc = "build_error" => builds'[i] = builds[i]]_vars

\* a torch that cannot be put on the face although it is in the hand, and a
\* stone that is not in the hand, both aborted
C17_Witness ==
  \E i, j \in 1..Len(builds) :
    /\ builds[i].pc = "build_error" /\ builds[i].block = "torch" /\ builds[i].face = "-y"
    /\ CanConsume(held[builds[i].s], "torch")
    /\ builds[j].pc = "build_error" /\ builds[j].block = "stone"
    /\ conn[builds[i].s] = "open"

\* C18: within a build each pre-build hook runs before anything is consumed and
\* before set_block; each post-build hook runs only after set_block and, when it
\* was called, set_metadata have completed successfully; the chunks are flushed
\* once, after all post-build hooks
C18_BuildOrder ==
  [][\A i \in 1..Len(builds) :
       /\ builds'[i].pre > builds[i].pre
            => ~builds[i].took /\ builds[i].setBlock = None
       /\ builds'[i].post > builds[i].post
            => builds[i].setBlock = "ok" /\ builds[i].setMeta \in {None, "ok"}
       /\ builds'[i].flushed > builds[i].flushed
            => builds[i].flushed = 0 /\ builds[i].post = NumPostHooks]_vars

\* C21: a "stopped" packet without a matching "started" that no "stopped" has
\* consumed yet (none at all, one for other coordinates or another block, or one
\* that an earlier "stopped" matched) destroys nothing, schedules nothing and
\* invokes no dig hook
C21_UnmatchedStoppedIsNoop ==
  [][\A s \in Sessions, p \in DigPos :
       (/\ lastPacket'.op = "digging" /\ lastPacket'.s = s /\ lastPacket'.err = 0
        /\ lastPacket'.arg = <<"stopped", p>>
        /\ \/ lastDig[s] = NoDig
           \/ lastDig[s].matched
           \/ lastDig[s].pos # p
           \/ lastDig[s].block # blockAt[p])
       => digTimers' = digTimers /\ blockAt' = blockAt /\ digDone' = digDone]_vars

\* C22: every run of the dig pipeline calls each configured dig hook exactly once,
\* with the block that was read before the destruction; it destroys the block
\* only if the block is breakable; it flushes the chunk exactly once, and only
\* when every dig hook, the asynchronous ones included, has completed
C22_DigPipeline ==
  [][/\ \A r \in 1..Len(digHooks') :
          /\ \A h \in DigHooks :
               Cardinality({k \in DOMAIN digHooks'[r].called :
                              digHooks'[r].called[k] = h}) = 1
          /\ digHooks'[r].flushed = (IF digHooks'[r].pending = {} THEN 1 ELSE 0)
     /\ digDone'.n # digDone.n
          => /\ Len(digHooks') = Len(digHooks) + 1
             /\ digHooks'[Len(digHooks')].block = digDone'.block
             /\ \/ digDone'.via = "1ko" /\ digDone'.block = blockAt[digDone'.pos]
                \/ /\ digDone'.via = "timer"
                   /\ \E k \in 1..Len(digTimers) :
                        /\ digTimers[k].pos = digDone'.pos
                        /\ digTimers[k].block = digDone'.block
                        /\ digTimers' = RemoveAt(digTimers, k)
             /\ blockAt' = IF Breakable(digDone'.block)
                             THEN [blockAt EXCEPT ![digDone'.pos] = "air"]
                             ELSE blockAt
     /\ digDone'.n = digDone.n => blockAt' = blockAt]_vars

\* a run whose hooks were all asynchronous has flushed, and a run on a block that
\* is not breakable has left it in place
C22_Witness ==
  /\ \E r \in 1..Len(digHooks) :
       /\ digHooks[r].async = DigHooks
       /\ digHooks[r].pending = {}
       /\ digHooks[r].flushed = 1
  /\ digDone.block = "bedrock"
  /\ blockAt[digDone.pos] = "bedrock"

\* C23: a digging, build or sign packet for a chunk that is not in self.chunks
\* makes the session write one error packet and close the transport; no chunk,
\* tile, inventory, window or last_dig changes and no hook is called
C23_MissingChunkIsError ==
  [][\A s \in Sessions :
       (/\ lastPacket'.s = s
        /\ \/ lastPacket'.op = "digging" /\ lastPacket'.arg[2][1] \notin chunks[s]
           \/ /\ lastPacket'.op = "build" /\ ~lastPacket'.arg.sentinel
              /\ lastPacket'.arg.chunk \notin chunks[s]
           \/ lastPacket'.op = "sign" /\ lastPacket'.arg \notin chunks[s])
       => /\ lastPacket'.err = 1
          /\ conn' = LoseConnection(s)
          /\ conn'[s] = "closing"
          /\ UNCHANGED <<chunkVars, lastDig, digTimers, blockAt, digDone, digHooks,
                         buildVars, tiles, registry>>]_vars

\* a digging packet for a chunk that is not cached, after a sign was set
C23_Witness ==
  /\ lastPacket.op = "digging"
  /\ lastPacket.err = 1
  /\ conn[lastPacket.s] = "closing"
  /\ tiles.hooks = 1

\* C24: when a request_chunk of the initial square fails, the session writes an
\* error packet and closes the connection (and the location packet of that run is
\* never written)
C24_InitialFailureCloses ==
  [][\A s \in Sessions :
       (/\ Len(initTasks'[s]) < Len(initTasks[s])
        /\ run'.kind # "spawn")
       => conn'[s] # "open"]_vars

\* C25: when a request_chunk of the enable task of update_chunks fails, the
\* connection stays as it is and the task goes on with the other chunks of its
\* schedule
C25_RoutineFailureSkipsOne ==
  [][\A s \in Sessions :
       (/\ enTask[s].st = "run"
        /\ enTask[s].wait # <<>>
        /\ enTask'[s].wait = <<>>
        /\ enTask[s].wait[1] \notin chunks'[s]
        /\ conn'[s] # "lost")
       => conn'[s] = conn[s] /\ enTask'[s].st = "run"]_vars

\* C26: the tasks of at most one schedule run per session: the task of the
\* initial square, or the pair of tasks of one update_chunks
C26_OneScheduleRuns ==
  \A s \in Sessions :
    Len(initTasks[s])
      + (IF enTask[s].st = "run" \/ disTask[s].st = "run" THEN 1 ELSE 0) <= 1

\* C27: the visible set that update_chunks computes around the player's chunk is
\* the full disc of radius CircleRadius, the points at distance CircleRadius on
\* the positive axes included
C27_VisibleIsFullDisc ==
  [][\A s \in Sessions :
       (lastPacket'.op = "position" /\ lastPacket'.s = s /\ player[s] /\ ~UpdateRaises(s))
       => LET c == loc'[s]
              R == (0 - CircleRadius)..CircleRadius
              disc == {<<c[1] + i, c[2] + j>> : <<i, j>> \in
                         {q \in R \X R : q[1] * q[1] + q[2] * q[2]
                                           <= CircleRadius * CircleRadius}}
          IN /\ enTask'[s].todo = disc \ chunks[s]
             /\ disTask'[s].todo = chunks[s] \ disc]_vars

\* C29: when the disable task has ended, every chunk it had to disable has left
\* self.chunks (after its destroy packets and its prechunk enabled=0)
C29_DisabledChunksLeaveCache ==
  \A s \in Sessions :
    disTask[s].st \in {"done", "failed"} => disTask[s].todo \cap chunks[s] = {}

\* C28: the enable task of update_chunks asks for one chunk at a time, each time
\* for one that is nearest to the chunk the schedule was computed for among those
\* left (so the distances never decrease), only for chunks of the visible set, and
\* it requests only chunks that are not in self.chunks; the steps of a schedule
\* are those of the reactor outside packet handlers and callback chains, which
\* are the callers of update_chunks
C28_NearestFirst ==
  [][\A s \in Sessions :
       (/\ enTask[s].st = "run" /\ enTask'[s].st = "run"
        /\ run' = run /\ lastPacket'.op = None
        /\ enTask'[s].todo # enTask[s].todo)
       => /\ enTask[s].wait = <<>>
          /\ \E c \in enTask[s].todo :
               /\ enTask'[s].todo = enTask[s].todo \ {c}
               /\ c \in Visible(enTask[s].ctr)
               /\ \A d \in enTask'[s].todo :
                    Dist2(c, enTask[s].ctr) <= Dist2(d, enTask[s].ctr)
               /\ enTask'[s].wait = (IF c \in chunks[s] THEN <<>> ELSE <<c>>)]_vars

\* a request for a chunk that is not the nearest of the schedule is in flight and
\* farther chunks are left
C28_Witness ==
  \E s \in Sessions :
    /\ enTask[s].st = "run"
    /\ enTask[s].wait # <<>>
    /\ Dist2(enTask[s].wait[1], enTask[s].ctr) > 1
    /\ enTask[s].todo # {}
    /\ conn[s] = "open"

\* C30: a build packet with the sentinel coordinates, with primary -1 or with
\* face noop has no effect whatever it targets: no window, no wid, no packet
\* written, no change of the world or the inventory
C30_DiscardedBuildHasNoEffect ==
  [][\A s \in Sessions :
       (/\ lastPacket'.op = "build" /\ lastPacket'.s = s
        /\ \/ lastPacket'.arg.sentinel
           \/ lastPacket'.arg.primary = "-1"
           \/ lastPacket'.arg.face = "noop")
       => /\ lastPacket'.err = 0
          /\ UNCHANGED <<conn, buildVars, digVars, tiles, chunkVars>>]_vars

\* C31: the automatons of a committed build are fed the coordinates that were
\* passed to set_block: the clicked coordinates offset by the face vector
C31_AutomatonFedPlacedCoords ==
  \A i \in 1..Len(builds) :
    builds[i].fed => builds[i].fedAt = builds[i].setAt

\* C32: a build on a workbench stores the window under the wid of the session,
\* which then grows by one, and places nothing; every key of self.windows is
\* at least 1 and below self.wid, so that no wid is used twice and 0 is never
\* a key
C32_FreshWindowIds ==
  [][/\ \A s \in Sessions : \A w \in windows'[s] : w >= 1 /\ w < wid'[s]
     /\ \A s \in Sessions : wid'[s] >= wid[s]
     /\ \A s \in Sessions :
          (lastPacket'.op = "build" /\ lastPacket'.s = s /\ windows'[s] # windows[s])
            => /\ windows'[s] = windows[s] \cup {wid[s]}
               /\ wid[s] \notin windows[s]
               /\ wid'[s] = wid[s] + 1
               /\ UNCHANGED <<builds, held, built, tiles, conn>>]_vars

\* C32 witness: a workbench was opened while an earlier window was still open
C32_Witness ==
  /\ lastPacket.op = "build"
  /\ windows[1] = {1, 2}
  /\ wid[1] = 3

\* C33: wclose or waction with a wid that is neither 0 nor a key of
\* self.windows writes one error packet and closes, changes no inventory and
\* no window and does not fail in any other way; wclose with wid 0 changes
\* nothing
C33_UnknownWindowIsError ==
  [][\A s \in Sessions :
       /\ (/\ lastPacket'.op \in {"wclose", "waction"}
           /\ lastPacket'.s = s
           /\ lastPacket'.arg # 0
           /\ lastPacket'.arg \notin windows[s])
            => /\ lastPacket'.err = 1
               /\ conn' = LoseConnection(s)
               /\ run' = run
               /\ UNCHANGED <<held, windows, wid>>
       /\ (lastPacket'.op = "wclose" /\ lastPacket'.s = s /\ lastPacket'.arg = 0)
            => UNCHANGED <<conn, run, held, windows, wid>>]_vars

\* C34: a "stopped" packet whose coordinates or block differ from last_dig
\* clears last_dig and destroys nothing, schedules nothing and invokes no dig
\* hook; a "stopped" packet while last_dig is unset changes nothing
C34_MismatchedStoppedClears ==
  [][\A s \in Sessions, p \in DigPos :
       (/\ lastPacket'.op = "digging" /\ lastPacket'.s = s /\ lastPacket'.err = 0
        /\ lastPacket'.arg = <<"stopped", p>>)
       => /\ (lastDig[s] # NoDig /\ (lastDig[s].pos # p \/ lastDig[s].block # blockAt[p]))
               => /\ lastDig'[s] = NoDig
                  /\ UNCHANGED <<digTimers, blockAt, digDone, digHooks>>
          /\ lastDig[s] = NoDig
               => UNCHANGED <<lastDig, digTimers, blockAt, digDone, digHooks>>]_vars

\* C38: when a scheduled dig completes, last_dig is cleared only if it still
\* describes that dig; a record that a later "started" packet stored is kept
C38_CompletionKeepsNewerDig ==
  [][\A s \in Sessions :
       (/\ digDone'.n # digDone.n
        /\ digDone'.via = "timer"
        /\ digDone'.s = s
        /\ lastDig[s] # NoDig
        /\ ~(/\ lastDig[s].matched
             /\ lastDig[s].coords = digDone'.pos[2]
             /\ lastDig[s].block = digDone'.block
             /\ lastDig[s].since = digDone'.since))
       => lastDig'[s] = lastDig[s]]_vars

\* C35: a packet other than handshake and login that is handled while the
\* session is not AUTHENTICATED calls no factory.give and changes nothing of
\* the world
C35_GuestPacketsHaveNoEffect ==
  [][\A s \in Sessions :
       (/\ lastPacket'.op \in {"position", "chat", "pickup"}
        /\ lastPacket'.s = s
        /\ state[s] # STATE_AUTHENTICATED)
       => /\ gives' = gives
          /\ UNCHANGED <<blockAt, built, tiles>>]_vars

\* C36: no packet of a session is dispatched once its transport was closed
C36_NoDispatchAfterClose ==
  [][\A s \in Sessions :
       (/\ lastPacket'.op \in {"handshake", "login", "position", "chat", "pickup"}
        /\ lastPacket'.s = s
        /\ sent' = sent + 1)
       => conn[s] = "open"]_vars

C39_PositionNeverFails ==
  [][\A s \in Sessions :
       (/\ lastPacket'.op = "position"
        /\ lastPacket'.s = s
        /\ state[s] = STATE_AUTHENTICATED
        /\ player[s]
        /\ ~UpdateRaises(s))
       => run'.kind # "drop"]_vars

====
